---- MODULE Spec2Model ----
(***************************************************************************)
(* A model of darwin-bootstrap/posixspawn-hook.c: the interposed           *)
(* posix_spawn / posix_spawnp entry points, the per-call steps of          *)
(* hook_posix_spawn_generic, and the unrestrict helper handshake.          *)
(*                                                                         *)
(* Strings are sequences of one-character strings.  In a                   *)
(* DYLD_INSERT_LIBRARIES value the character "B" stands for the whole text *)
(* of bl_dylib and "P" for the whole text of psh_dylib; ":" is the list    *)
(* separator and every other character is part of some unrelated path.     *)
(* An environment entry "NAME=value" is the record [name, val]; advance()  *)
(* on the template "NAME=" succeeds exactly on the entries of that name.   *)
(***************************************************************************)
EXTENDS Integers, Sequences, FiniteSets, TLC

VARIABLES
    pc,               \* position of the calling thread
    is_launchd,       \* static bool is_launchd
    hooked,           \* old_posix_spawn / old_posix_spawnp have been captured
    fd255,            \* descriptor slot 255 of the process
    req,              \* the caller's arguments and the objects they point to
    pid_cell,         \* the pid_t the caller's pidp points to
    old,              \* which original primitive this call forwards to
    flags,            \* short flags
    dylib_to_add,
    my_attr,
    my_envp,
    safe_mode,
    orig_dyld_insert,
    env_count,
    new,
    new_envp,
    envp_to_use,
    need_unrestrict,
    was_suspended,
    ret,
    oldCalls,         \* history: calls of the original primitive for the target
    helperRuns,       \* history: calls of spawn_unrestrict
    inspected,        \* history: number of looks_restricted runs in this call
    events,           \* history: failures and answers of the system met in this call
    live,             \* history: what this call allocated and has not freed
    pass,             \* rewrite harness: 1 = first rewrite, 2 = rewrite of the result
    first_out,        \* rewrite harness: the environment the first rewrite produced
    file,             \* the file looks_restricted found at path
    lr,               \* looks_restricted: its result and what became of fd and cmds_buf
    given,            \* history: the caller's request as it was when the hook was entered
    sb,               \* hook_sandbox_check: its arguments, what it forwarded, its result
    threads           \* concurrent callers: each thread's call, and who wrote slot 255 last

vars == << pc, is_launchd, hooked, fd255, req, pid_cell, old, flags, dylib_to_add,
           my_attr, my_envp, safe_mode, orig_dyld_insert, env_count, new, new_envp,
           envp_to_use, need_unrestrict, was_suspended, ret, oldCalls, helperRuns,
           inspected, events, live, pass, first_out, file, lr, given, sb, threads >>

(***************************************************************************)
(* Bounds of the model.                                                    *)
(***************************************************************************)
\* most entries in an environment handed to the hook
MaxEnv == 2
\* most characters in a DYLD_INSERT_LIBRARIES value of the rewrite harness
MaxLen == 3
\* most words in the load commands of a Mach-O image given to looks_restricted
MaxCmds == 3

(***************************************************************************)
(* Fixed strings of the source.                                            *)
(***************************************************************************)
bl_dylib == << "B" >>
psh_dylib == << "P" >>

MSSafeMode == "_MSSafeMode"
SubstituteSafeMode == "_SubstituteSafeMode"
DIL == "DYLD_INSERT_LIBRARIES"

xpcproxy == "/usr/libexec/xpcproxy"
substituted == "/Library/Substitute/Helpers/substituted"
notifyd == "/usr/sbin/notifyd"
unrestrict_prog == "/Library/Substitute/Helpers/unrestrict"

POSIX_SPAWN_SETEXEC == "POSIX_SPAWN_SETEXEC"
POSIX_SPAWN_START_SUSPENDED == "POSIX_SPAWN_START_SUSPENDED"

S0 == << "0" >>
SNO == << "N", "O" >>
S1 == << "1" >>
SYES == << "Y", "E", "S" >>

(***************************************************************************)
(* advance(&env, "NAME="): true exactly when the entry starts with the     *)
(* template; the advanced pointer is then the entry's value.               *)
(***************************************************************************)
advance(entry, template) == entry.name = template

(***************************************************************************)
(* xbasename: the text after the last '/', or the whole text.              *)
(***************************************************************************)
xbasename(path) ==
    LET slashes == { i \in 1..Len(path) : path[i] = "/" }
    IN  IF slashes = {} THEN path
        ELSE LET slash == CHOOSE i \in slashes : \A j \in slashes : j <= i
             IN  SubSeq(path, slash + 1, Len(path))

(***************************************************************************)
(* The safe-mode scan, lines 249-265.  The loop visits the entries in      *)
(* order; idx is the entry under ep, safe and orig are the running values  *)
(* of safe_mode and orig_dyld_insert.  The result says whether the loop    *)
(* left through "goto skip" and, if not, what it computed.                 *)
(***************************************************************************)
\* a mutant: a safe-mode value that is not recognized is passed over
RECURSIVE scan_env_lenient(_, _, _, _)
scan_env_lenient(envp, idx, safe, orig) ==
    IF idx > Len(envp)
    THEN [skip |-> FALSE, safe_mode |-> safe, orig_dyld_insert |-> orig,
          env_count |-> Len(envp)]
    ELSE LET env == envp[idx]
         IN  IF advance(env, MSSafeMode) \/ advance(env, SubstituteSafeMode)
             THEN scan_env_lenient(envp, idx + 1,
                                   safe \/ env.val = S1 \/ env.val = SYES, orig)
             ELSE IF advance(env, DIL)
                  THEN scan_env_lenient(envp, idx + 1, safe, env.val)
                  ELSE scan_env_lenient(envp, idx + 1, safe, orig)

RECURSIVE scan_env(_, _, _, _)
scan_env(envp, idx, safe, orig) ==
    IF idx > Len(envp)
    THEN [skip |-> FALSE, safe_mode |-> safe, orig_dyld_insert |-> orig,
          env_count |-> Len(envp)]
    ELSE LET env == envp[idx]
         IN  IF advance(env, MSSafeMode) \/ advance(env, SubstituteSafeMode)
             THEN IF env.val = S0 \/ env.val = SNO
                  THEN scan_env(envp, idx + 1, safe, orig)
                  ELSE IF env.val = S1 \/ env.val = SYES
                       THEN scan_env(envp, idx + 1, TRUE, orig)
                       ELSE [skip |-> TRUE, safe_mode |-> safe,
                             orig_dyld_insert |-> orig, env_count |-> idx]
             ELSE IF advance(env, DIL)
                  THEN scan_env(envp, idx + 1, safe, env.val)
                  ELSE scan_env(envp, idx + 1, safe, orig)

(***************************************************************************)
(* The list rebuild, lines 271-296.  Positions are 1-based; *p is the      *)
(* terminating NUL exactly when p > Len(s).  out is the text between       *)
(* newp_orig and newp, so "newp != newp_orig" is "out is not empty".       *)
(***************************************************************************)
\* strchr(p, ':') ?: (p + strlen(p))
next_colon(s, p) ==
    LET colons == { i \in p..Len(s) : s[i] = ":" }
    IN  IF colons = {} THEN Len(s) + 1
        ELSE CHOOSE i \in colons : \A j \in colons : i <= j

\* a mutant: the test for posixspawn-hook.dylib is forgotten
is_substitute_only_bl(elem) == elem = bl_dylib

is_substitute(elem) == elem = bl_dylib \/ elem = psh_dylib

\* lines 280-286: append one element, with a separator when something is there
append_elem(out, elem) ==
    (IF out # << >> THEN out \o << ":" >> ELSE out) \o elem

RECURSIVE rebuild_list(_, _, _)
rebuild_list(s, p, out) ==
    IF p > Len(s) THEN out
    ELSE LET next == next_colon(s, p)
             elem == SubSeq(s, p, next - 1)
             out2 == IF ~is_substitute(elem) THEN append_elem(out, elem) ELSE out
         IN  IF next > Len(s) THEN out2
             ELSE rebuild_list(s, next + 1, out2)

\* a mutant: ours is put in front of the list
append_ours_in_front(out, safe, dylib) ==
    IF ~safe THEN dylib \o (IF out # << >> THEN << ":" >> \o out ELSE out) ELSE out

\* lines 291-296: append ours if necessary
append_ours(out, safe, dylib) ==
    IF ~safe THEN append_elem(out, dylib) ELSE out

\* lines 266-303: the text after "DYLD_INSERT_LIBRARIES=" in new; empty means
\* that new is freed and set to NULL
build_new(orig, safe, dylib) ==
    append_ours(rebuild_list(orig, 1, << >>), safe, dylib)

(***************************************************************************)
(* The new environment array, lines 304-315: the first env_count entries   *)
(* of my_envp without any DYLD_INSERT_LIBRARIES entry, then new if it is   *)
(* not NULL.  slots is the number of pointers allocated, used the number   *)
(* written through outp (the terminating NULL included).                   *)
(***************************************************************************)
keep_entry(env) == ~advance(env, DIL)

envp_slots(count) == count + 2

\* a mutant: only the first DYLD_INSERT_LIBRARIES entry is removed
build_envp_first_only(envp, count, newval) ==
    LET dils == { i \in 1..count : advance(envp[i], DIL) }
        first == IF dils = {} THEN 0
                 ELSE CHOOSE i \in dils : \A j \in dils : i <= j
        keep == { i \in 1..count : i # first }
        kept == SelectSeq([i \in 1..count |-> [at |-> i, e |-> envp[i]]],
                          LAMBDA x : x.at \in keep)
        ents0 == [i \in 1..Len(kept) |-> kept[i].e]
        ents == IF newval # << >>
                THEN Append(ents0, [name |-> DIL, val |-> newval])
                ELSE ents0
    IN  [isnull |-> FALSE, ents |-> ents, slots |-> envp_slots(count),
         used |-> Len(ents) + 1]

build_envp(envp, count, newval) ==
    LET kept == SelectSeq(SubSeq(envp, 1, count), keep_entry)
        ents == IF newval # << >>
                THEN Append(kept, [name |-> DIL, val |-> newval])
                ELSE kept
    IN  [isnull |-> FALSE, ents |-> ents, slots |-> envp_slots(count),
         used |-> Len(ents) + 1]

(***************************************************************************)
(* The injection policy, lines 188-224: the dylib to add, or the empty     *)
(* text for "goto skip".  argv0 is [isnull, s].                            *)
(***************************************************************************)
sshd == << "sshd" >>

\* a mutant: only launchd injects into xpcproxy
choose_dylib_xpcproxy_launchd_only(launchd, path, argv0) ==
    IF launchd
    THEN IF path # xpcproxy THEN << >> ELSE psh_dylib
    ELSE IF \/ path = substituted
            \/ path = notifyd
            \/ path = xpcproxy
            \/ xbasename(IF argv0.isnull THEN << >> ELSE argv0.s) = sshd
         THEN << >>
         ELSE bl_dylib

\* a mutant: the test for notifyd is forgotten
choose_dylib_without_notifyd(launchd, path, argv0) ==
    IF launchd
    THEN IF path # xpcproxy THEN << >> ELSE psh_dylib
    ELSE IF \/ path = substituted
            \/ xbasename(IF argv0.isnull THEN << >> ELSE argv0.s) = sshd
         THEN << >>
         ELSE bl_dylib

choose_dylib(launchd, path, argv0) ==
    IF launchd
    THEN IF path # xpcproxy THEN << >> ELSE psh_dylib
    ELSE IF \/ path = substituted
            \/ path = notifyd
            \/ xbasename(IF argv0.isnull THEN << >> ELSE argv0.s) = sshd
         THEN << >>
         ELSE bl_dylib

(***************************************************************************)
(* looks_restricted, lines 77-149.  A file is the sequence of its 32-bit   *)
(* words, each word the four bytes in file order; lengths and offsets are  *)
(* counted in words.  A uint32_t value is written most significant byte    *)
(* first, so 0xcafebabe is << 202, 254, 186, 190 >>.  The host is          *)
(* little-endian, as every Darwin target: a load reverses the bytes of     *)
(* memory and ntohl swaps.                                                 *)
(***************************************************************************)
FAT_MAGIC == << 202, 254, 186, 190 >>
MH_MAGIC == << 254, 237, 250, 206 >>
MH_MAGIC_64 == << 254, 237, 250, 207 >>
MH_CIGAM == << 206, 250, 237, 254 >>
MH_CIGAM_64 == << 207, 250, 237, 254 >>

OSSwapInt32(v) == << v[4], v[3], v[2], v[1] >>
ntohl(v) == OSSwapInt32(v)
\* the uint32_t the host reads from four bytes of memory
load(m) == << m[4], m[3], m[2], m[1] >>
\* the number a uint32_t value stands for
ToNat(v) == ((v[1] * 256 + v[2]) * 256 + v[3]) * 256 + v[4]

\* sizeof(u), sizeof(struct mach_header), sizeof(struct mach_header_64)
sizeof_u == 7
sizeof_mach_header == 7
sizeof_mach_header_64 == 8

\* read / pread: the words the file has from offset on, count at most
pread(words, count, offset) ==
    IF offset >= Len(words) THEN << >>
    ELSE SubSeq(words, offset + 1,
                IF offset + count <= Len(words) THEN offset + count ELSE Len(words))

\* "__restrict" with its terminating NUL: eleven bytes, two words and three bytes
sectname == << << 95, 95, 114, 101 >>, << 115, 116, 114, 105 >>, << 99, 116, 0 >> >>

\* !!memmem(cmds_buf, sizeofcmds, sectname, sizeof(sectname))
memmem(buf, needle) ==
    \E i \in 1..(Len(buf) - 2) :
        /\ buf[i] = needle[1]
        /\ buf[i + 1] = needle[2]
        /\ SubSeq(buf[i + 2], 1, 3) = needle[3]

lr_result(got, verdict, fd, buf) ==
    [ran |-> TRUE, malloc_ok |-> got, ret |-> verdict, fd |-> fd, cmds_buf |-> buf]

\* a mutant: sizeofcmds is used as it was read, without OSSwapInt32
looks_restricted_no_swap(f, got) ==
    IF ~f.opens THEN lr_result(got, FALSE, "not_opened", "not_allocated")
    ELSE
    LET end == lr_result(got, FALSE, "closed", "not_allocated")
        u1 == pread(f.words, sizeof_u, 0)
    IN  IF Len(u1) # sizeof_u THEN end
        ELSE
        LET fat == ntohl(load(u1[1])) = FAT_MAGIC
        IN  IF fat /\ load(u1[2]) = << 0, 0, 0, 0 >> THEN end
            ELSE
            LET offset0 == IF fat THEN ToNat(ntohl(load(u1[5]))) ELSE 0
                u == IF fat THEN pread(f.words, sizeof_u, offset0) ELSE u1
            IN  IF Len(u) # sizeof_u THEN end
                ELSE
                LET magic == load(u[1])
                IN  IF magic \notin { MH_MAGIC, MH_MAGIC_64, MH_CIGAM, MH_CIGAM_64 }
                    THEN end
                    ELSE
                    LET is64 == magic \in { MH_MAGIC_64, MH_CIGAM_64 }
                        sizeofcmds == ToNat(load(u[6]))
                        offset == offset0 + (IF is64 THEN sizeof_mach_header_64
                                                     ELSE sizeof_mach_header)
                        cmds_buf == IF got THEN pread(f.words, sizeofcmds, offset)
                                    ELSE << >>
                        actual == IF got \/ sizeofcmds = 0 THEN Len(cmds_buf) ELSE -1
                        buf == IF got THEN "freed" ELSE "null"
                    IN  IF actual < 0 \/ actual # sizeofcmds
                        THEN lr_result(got, FALSE, "closed", buf)
                        ELSE lr_result(got, memmem(cmds_buf, sectname), "closed", buf)

(***************************************************************************)
(* got says whether malloc(sizeofcmds) gave a buffer.  With a NULL buffer  *)
(* pread of a positive size fails (EFAULT) and pread of size 0 returns 0.  *)
(* The result tells the verdict and what became of fd and cmds_buf.        *)
(***************************************************************************)
looks_restricted(f, got) ==
    IF ~f.opens THEN lr_result(got, FALSE, "not_opened", "not_allocated")
    ELSE
    LET end == lr_result(got, FALSE, "closed", "not_allocated")
        u1 == pread(f.words, sizeof_u, 0)
    IN  IF Len(u1) # sizeof_u THEN end
        ELSE
        LET fat == ntohl(load(u1[1])) = FAT_MAGIC
        IN  IF fat /\ load(u1[2]) = << 0, 0, 0, 0 >> THEN end
            ELSE
            LET offset0 == IF fat THEN ToNat(ntohl(load(u1[5]))) ELSE 0
                u == IF fat THEN pread(f.words, sizeof_u, offset0) ELSE u1
            IN  IF Len(u) # sizeof_u THEN end
                ELSE
                LET magic == load(u[1])
                IN  IF magic \notin { MH_MAGIC, MH_MAGIC_64, MH_CIGAM, MH_CIGAM_64 }
                    THEN end
                    ELSE
                    LET swap == magic \in { MH_CIGAM, MH_CIGAM_64 }
                        is64 == magic \in { MH_MAGIC_64, MH_CIGAM_64 }
                        sizeofcmds == ToNat(IF swap THEN OSSwapInt32(load(u[6]))
                                                    ELSE load(u[6]))
                        offset == offset0 + (IF is64 THEN sizeof_mach_header_64
                                                     ELSE sizeof_mach_header)
                        cmds_buf == IF got THEN pread(f.words, sizeofcmds, offset)
                                    ELSE << >>
                        actual == IF got \/ sizeofcmds = 0 THEN Len(cmds_buf) ELSE -1
                        buf == IF got THEN "freed" ELSE "null"
                    IN  IF actual < 0 \/ actual # sizeofcmds
                        THEN lr_result(got, FALSE, "closed", buf)
                        ELSE lr_result(got, memmem(cmds_buf, sectname), "closed", buf)

(***************************************************************************)
(* Values the model draws its inputs from.                                 *)
(***************************************************************************)
Entry(n, v) == [name |-> n, val |-> v]

\* the entries of the environments handed to the hook
HookEntries ==
    { Entry(MSSafeMode, S1),
      Entry(SubstituteSafeMode, SNO),
      Entry(MSSafeMode, << "m", "a", "y", "b", "e" >>),
      Entry(DIL, << "a", ":", "B", ":", "b" >>),
      Entry(DIL, << "P" >>) }

SeqsUpTo(S, n) == UNION { [1..k -> S] : k \in 0..n }

HookEnvs == SeqsUpTo(HookEntries, MaxEnv)

\* what *_NSGetEnviron() holds when the caller passes no envp
Environs ==
    { << Entry("PATH", << "/", "b", "i", "n" >>) >>,
      << Entry(DIL, << "P", ":", "a" >>), Entry(SubstituteSafeMode, SYES) >> }

Paths == { xpcproxy, substituted, notifyd, "/bin/ls" }

Argv0s ==
    { [isnull |-> TRUE, s |-> << >>],
      [isnull |-> FALSE, s |-> << "/", "sshd" >>],
      [isnull |-> FALSE, s |-> << "sshd", "/", "ls" >>] }

FlagSets == SUBSET { POSIX_SPAWN_SETEXEC, POSIX_SPAWN_START_SUSPENDED }

Attrps == { [isnull |-> TRUE, flags |-> {}] }
            \cup { [isnull |-> FALSE, flags |-> f] : f \in FlagSets }

\* the callers of the model always pass a pid_t to store the child's pid in
Pidps == { [isnull |-> FALSE] }

Envps == { [isnull |-> TRUE, ents |-> << >>] }
            \cup { [isnull |-> FALSE, ents |-> e] : e \in HookEnvs }

EntryPoints == { "hook_posix_spawn", "hook_posix_spawnp" }

\* entry is the interposed function the caller went through.  Attributes and
\* environments vary in full on posix_spawn calls without argv[0]; entry points
\* and argv[0] vary in full on calls without attributes and with at most one
\* environment entry.
Requests ==
    { r \in [ entry : EntryPoints, pidp : Pidps, path : Paths,
              file_actions : { "file_actions" }, attrp : Attrps, argv0 : Argv0s,
              envp : Envps ] :
        \/ r.argv0.isnull /\ r.entry = "hook_posix_spawn"
        \/ r.attrp.isnull /\ Len(r.envp.ents) <= 1 }

NoRequest ==
    [ entry |-> "", pidp |-> [isnull |-> TRUE], path |-> "", file_actions |-> "",
      attrp |-> [isnull |-> TRUE, flags |-> {}],
      argv0 |-> [isnull |-> TRUE, s |-> << >>],
      envp |-> [isnull |-> TRUE, ents |-> << >>] ]

\* return values of the original primitive: success, or an errno
SpawnResults == { 0, 2 }

\* obj names the object a posix_spawnattr_t designates
NullAttr == [isnull |-> TRUE, flags |-> {}, obj |-> "none"]
NullNew == [isnull |-> TRUE, val |-> << >>]
NullEnvp == [isnull |-> TRUE, ents |-> << >>, slots |-> 0, used |-> 0]

\* getpid(): launchd is process 1
getpid == IF is_launchd THEN 1 ELSE 42

\* the pid the original primitive gives a created child
ChildPids == { 57 }

(***************************************************************************)
(* The files looks_restricted may find at path.  An image is described by  *)
(* its byte order, its word size, whether its magic is a Mach-O magic, its *)
(* load commands and the words that follow them; every field of a header   *)
(* is stored in the byte order of its image, every field of a fat header   *)
(* big-endian.  cut is the number of words missing at the end of the file. *)
(***************************************************************************)
Stored(v, endian) == IF endian = "little" THEN OSSwapInt32(v) ELSE v
U32(n) == << 0, 0, 0, n >>
Pad == U32(0)

\* "ct" with its NUL and a pad byte, and "cts": the name "__restricts"
CmdWords ==
    { Pad, sectname[1], sectname[2], << 99, 116, 0, 0 >>, << 99, 116, 115, 0 >> }

ImageWords(d) ==
    << IF d.good
       THEN Stored(IF d.bits = 64 THEN MH_MAGIC_64 ELSE MH_MAGIC, d.endian)
       ELSE Stored(FAT_MAGIC, "little"),
       Pad, Pad, Pad, Stored(U32(1), d.endian),
       Stored(U32(Len(d.cmds)), d.endian), Pad >>
    \o (IF d.bits = 64 THEN << Pad >> ELSE << >>)
    \o d.cmds \o d.tail

Images ==
    [ endian : { "little", "big" }, bits : { 32, 64 }, good : { TRUE },
      cmds : SeqsUpTo(CmdWords, MaxCmds), tail : { << >>, << << 99, 116, 0, 0 >> >> } ]
    \cup
    [ endian : { "little", "big" }, bits : { 32, 64 }, good : { FALSE },
      cmds : { << sectname[1], sectname[2], << 99, 116, 0, 0 >> >> }, tail : { << >> } ]

Chop(words, cut) == SubSeq(words, 1, IF Len(words) > cut THEN Len(words) - cut ELSE 0)

ThinFile(d, cut) ==
    [ opens |-> TRUE, fat |-> FALSE, images |-> << d >>, cut |-> cut,
      words |-> Chop(ImageWords(d), cut) ]

\* a fat file of no, one or two architectures
FatFile(ds, cut) ==
    LET n == Len(ds)
        first == IF 2 + 5 * n < sizeof_u THEN sizeof_u ELSE 2 + 5 * n
        at(k) == IF k = 1 THEN first ELSE first + Len(ImageWords(ds[1]))
        arch(k) == << Pad, Pad, Stored(U32(at(k)), "big"),
                      Stored(U32(Len(ImageWords(ds[k]))), "big"), Pad >>
        archs == IF n = 0 THEN << >>
                 ELSE IF n = 1 THEN arch(1) ELSE arch(1) \o arch(2)
        head == << Stored(FAT_MAGIC, "big"), Stored(U32(n), "big") >> \o archs
        padding == [i \in 1..(first - Len(head)) |-> Pad]
        body == IF n = 0 THEN << >>
                ELSE IF n = 1 THEN ImageWords(ds[1])
                     ELSE ImageWords(ds[1]) \o ImageWords(ds[2])
    IN  [ opens |-> TRUE, fat |-> TRUE, images |-> ds, cut |-> cut,
          words |-> Chop(head \o padding \o body, cut) ]

NoFile == [ opens |-> FALSE, fat |-> FALSE, images |-> << >>, cut |-> 0, words |-> << >> ]

\* the architectures of the fat files
FatImages ==
    { d \in Images : /\ d.tail = << >>
                      /\ d.cmds \in { << sectname[1], sectname[2], << 99, 116, 0, 0 >> >>,
                                      << sectname[1], sectname[2], << 99, 116, 115, 0 >> >> }
                      /\ (d.endian = "little") = (d.bits = 64) }

Cuts == { 0, 1 }

Files ==
    { NoFile }
    \cup { ThinFile(d, cut) : d \in Images, cut \in Cuts }
    \cup { FatFile(ds, cut) : ds \in SeqsUpTo(FatImages, 2), cut \in Cuts \cup { 5 } }

\* what the spawned paths hold: a restricted binary and one that is not
TargetFiles ==
    { ThinFile([ endian |-> "little", bits |-> 64, good |-> TRUE, tail |-> << >>,
                 cmds |-> c ], 0) :
        c \in { << sectname[1], sectname[2], << 99, 116, 0, 0 >> >>,
                << Pad >> } }

\* lr before looks_restricted has run
NotInspected ==
    [ ran |-> FALSE, malloc_ok |-> FALSE, ret |-> FALSE, fd |-> "not_opened",
      cmds_buf |-> "not_allocated" ]

(***************************************************************************)
(* The arguments of sandbox_check.  A trailing slot holds a pointer to a   *)
(* string, NULL, a number, or nothing the caller passed ("absent": the     *)
(* slot then holds whatever va_arg finds there).                           *)
(***************************************************************************)
SandboxOps ==
    { [isnull |-> TRUE, s |-> ""],
      [isnull |-> FALSE, s |-> "mach-lookup"],
      [isnull |-> FALSE, s |-> "mach-register"],
      [isnull |-> FALSE, s |-> "file-read-data"] }

NameSlots ==
    { [kind |-> "string", s |-> "com.ex.substituted"],
      [kind |-> "string", s |-> "com.ex.substituted.extra"],
      [kind |-> "string", s |-> "com.apple.system.logger"],
      [kind |-> "null", s |-> ""],
      [kind |-> "absent", s |-> ""] }

OtherSlots == { [kind |-> "number", s |-> ""], [kind |-> "absent", s |-> ""] }

SandboxArgs ==
    [ pid : { 42, 57 }, op : SandboxOps, type : { 0, 1 },
      blah : { << n, o, o, o, o >> : n \in NameSlots, o \in OtherSlots } ]

\* what old_sandbox_check answers: allowed, or denied
SandboxResults == { 0, 1 }

NoSandbox ==
    [ pid |-> 0, op |-> [isnull |-> TRUE, s |-> ""], type |-> 0, blah |-> << >>,
      calls |-> << >>, ret |-> 0 ]

(***************************************************************************)
(* Threads of one process inside hook_posix_spawn_generic at the same      *)
(* time.  A thread's record holds the locals of its call that decide what  *)
(* it does to the process: its position, flags, need_unrestrict,           *)
(* was_suspended and ret.  Two history fields say what the call did with   *)
(* descriptor slot 255 while the slot held what the other call had put     *)
(* there: overwrote (its dup2 or fcntl acted on it) and observed (a        *)
(* process it spawned, or the image it exec'ed, inherited it).             *)
(***************************************************************************)
Threads == { "t1", "t2" }

IdleThread ==
    [ pc |-> "idle", flags |-> {}, need_unrestrict |-> FALSE, was_suspended |-> FALSE,
      ret |-> 0, overwrote |-> FALSE, observed |-> FALSE ]

\* marker_by: the thread whose dup2 or fcntl wrote descriptor slot 255 last
NoThreads == [ call |-> [ t \in Threads |-> IdleThread ], marker_by |-> "none" ]

(***************************************************************************)
(* sprintf(pid_s, "%ld", (long) pid)                                       *)
(***************************************************************************)
Digits == << "0", "1", "2", "3", "4", "5", "6", "7", "8", "9" >>

RECURSIVE pid_string(_)
pid_string(n) ==
    IF n < 10 THEN << Digits[n + 1] >>
    ELSE Append(pid_string(n \div 10), Digits[(n % 10) + 1])

(***************************************************************************)
(* spawn_unrestrict, lines 52-75: the record of one helper invocation.     *)
(* started is whether old_posix_spawn started the helper (what the         *)
(* function returns), reaped whether waitpid succeeded.                    *)
(***************************************************************************)
spawn_unrestrict(pid, should_resume, is_exec, started, reaped) ==
    [ prog |-> unrestrict_prog,
      argv |-> << unrestrict_prog, pid_string(pid),
                  IF should_resume THEN "1" ELSE "0",
                  IF is_exec THEN "1" ELSE "0" >>,
      env |-> << Entry(MSSafeMode, S1) >>,
      via |-> "old_posix_spawn",
      started |-> started,
      reaped |-> started /\ reaped ]

(***************************************************************************)
(* One call of the original primitive for the caller's target: what it was *)
(* given and what it answered.  attrp and envp carry the pointer that was  *)
(* passed as well as what it points to.                                    *)
(***************************************************************************)
OldCall(site, attr_ptr, attr, env_ptr, env, result, pid) ==
    [ fn |-> old, site |-> site, pidp |-> req.pidp, path |-> req.path,
      file_actions |-> req.file_actions,
      attrp |-> [ptr |-> attr_ptr, isnull |-> attr.isnull, flags |-> attr.flags],
      argv0 |-> req.argv0,
      envp |-> [ptr |-> env_ptr, isnull |-> env.isnull, ents |-> env.ents],
      ret |-> result, pid |-> pid ]

\* the arguments of the call at line 346
injected_call(result, pid) ==
    OldCall("injected", "my_attr", my_attr, envp_to_use,
            IF envp_to_use = "new_envp"
            THEN [isnull |-> new_envp.isnull, ents |-> new_envp.ents]
            ELSE req.envp,
            result, pid)

\* a mutant: the fallback call passes my_envp where the source passes envp
skip_call_my_envp(result, pid) ==
    OldCall("skip", "attrp", req.attrp, "envp",
            [isnull |-> FALSE, ents |-> my_envp], result, pid)

\* the arguments of the call at line 361
skip_call(result, pid) ==
    OldCall("skip", "attrp", req.attrp, "envp", req.envp, result, pid)

(***************************************************************************)
(* Init: the library is mapped, its constructor has not run.               *)
(***************************************************************************)
Locals0 ==
    /\ old = ""
    /\ flags = {}
    /\ dylib_to_add = << >>
    /\ my_attr = NullAttr
    /\ my_envp = << >>
    /\ safe_mode = FALSE
    /\ orig_dyld_insert = << >>
    /\ env_count = 0
    /\ new = NullNew
    /\ new_envp = NullEnvp
    /\ envp_to_use = "envp"
    /\ need_unrestrict = FALSE
    /\ was_suspended = FALSE
    /\ ret = 0
    /\ oldCalls = << >>
    /\ helperRuns = << >>
    /\ inspected = 0
    /\ events = {}
    /\ live = {}

Init ==
    /\ pc = "load"
    /\ is_launchd = FALSE
    /\ hooked = FALSE
    /\ fd255 = "closed"
    /\ req = NoRequest
    /\ pid_cell = 0
    /\ pass = 1
    /\ first_out = << >>
    /\ file = NoFile
    /\ lr = NotInspected
    /\ given = NoRequest
    /\ sb = NoSandbox
    /\ threads = NoThreads
    /\ Locals0


(***************************************************************************)
(* init, lines 425-467: the constructor.  is_launchd says whether the main *)
(* image's name contains "launchd"; when the image cannot be opened or the *)
(* imports cannot be interposed no hook is installed.                      *)
(***************************************************************************)
init ==
    /\ pc = "load"
    /\ \E launchd \in BOOLEAN, installed \in BOOLEAN :
          /\ is_launchd' = launchd
          /\ hooked' = installed
    /\ pc' = "idle"
    /\ UNCHANGED << fd255, req, pid_cell, old, flags, dylib_to_add, my_attr, my_envp,
                    safe_mode, orig_dyld_insert, env_count, new, new_envp, envp_to_use,
                    need_unrestrict, was_suspended, ret, oldCalls, helperRuns,
                    inspected, events, live, pass, first_out, file, lr, given, sb, threads >>

(***************************************************************************)
(* Entry of hook_posix_spawn_generic, lines 156-168: the caller's request  *)
(* arrives and the locals get their initial values.                        *)
(***************************************************************************)
hook_posix_spawn_generic(entry, oldfn) ==
    /\ pc = "idle"
    /\ hooked
    /\ \E r \in Requests, environ \in Environs :
          /\ r.entry = entry
          /\ req' = r
          /\ given' = r
          /\ my_envp' = IF r.envp.isnull THEN environ ELSE r.envp.ents
    /\ old' = oldfn
    /\ pid_cell' = 0
    /\ new' = NullNew
    /\ new_envp' = NullEnvp
    /\ envp_to_use' = "envp"
    /\ my_attr' = NullAttr
    /\ flags' = {}
    /\ pc' = "getflags"
    /\ UNCHANGED << is_launchd, hooked, fd255, dylib_to_add, safe_mode,
                    orig_dyld_insert, env_count, need_unrestrict, was_suspended, ret,
                    oldCalls, helperRuns, inspected, events, live, pass, first_out,
                    file, lr, sb, threads >>

\* lines 369-375
hook_posix_spawn == hook_posix_spawn_generic("hook_posix_spawn", "old_posix_spawn")

\* lines 377-383
hook_posix_spawnp == hook_posix_spawn_generic("hook_posix_spawnp", "old_posix_spawnp")

\* lines 168-170: attrp && posix_spawnattr_getflags(attrp, &flags)
GetFlags ==
    /\ pc = "getflags"
    /\ \E ok \in BOOLEAN :
          /\ req.attrp.isnull => ok
          /\ flags' = IF ok /\ ~req.attrp.isnull THEN req.attrp.flags ELSE flags
          /\ events' = IF ok THEN events ELSE events \cup { "getflags_failed" }
          /\ pc' = IF ok THEN "policy" ELSE "crap"
    /\ UNCHANGED << is_launchd, hooked, fd255, req, pid_cell, old, dylib_to_add,
                    my_attr, my_envp, safe_mode, orig_dyld_insert, env_count, new,
                    new_envp, envp_to_use, need_unrestrict, was_suspended, ret,
                    oldCalls, helperRuns, inspected, live, pass, first_out, file, lr, given, sb, threads >>

\* lines 188-224: which dylib should we add, if any?
ChooseDylib ==
    /\ pc = "policy"
    /\ LET d == choose_dylib(is_launchd, req.path, req.argv0)
       IN  /\ dylib_to_add' = d
           /\ pc' = IF d = << >> THEN "skip" ELSE "access"
    /\ UNCHANGED << is_launchd, hooked, fd255, req, pid_cell, old, flags, my_attr,
                    my_envp, safe_mode, orig_dyld_insert, env_count, new, new_envp,
                    envp_to_use, need_unrestrict, was_suspended, ret, oldCalls,
                    helperRuns, inspected, events, live, pass, first_out, file, lr, given, sb, threads >>

\* lines 226-231: access(dylib_to_add, R_OK)
AccessDylib ==
    /\ pc = "access"
    /\ \E readable \in BOOLEAN :
          /\ events' = events \cup { IF readable THEN "dylib_readable"
                                                 ELSE "dylib_unreadable" }
          /\ pc' = IF readable THEN "clone" ELSE "skip"
    /\ UNCHANGED << is_launchd, hooked, fd255, req, pid_cell, old, flags, dylib_to_add,
                    my_attr, my_envp, safe_mode, orig_dyld_insert, env_count, new,
                    new_envp, envp_to_use, need_unrestrict, was_suspended, ret,
                    oldCalls, helperRuns, inspected, live, pass, first_out, file, lr, given, sb, threads >>

\* a mutant: my_attr is the caller's object itself, attr = *attrp without the copy
cloned_attr_shared(attrp) ==
    [isnull |-> FALSE, flags |-> IF attrp.isnull THEN {} ELSE attrp.flags,
     obj |-> IF attrp.isnull THEN "own" ELSE "caller"]

\* what lines 233-243 leave in my_attr when they succeed: an object of the hook's
\* own, a copy of the caller's or a freshly initialized one
cloned_attr(attrp) ==
    [isnull |-> FALSE, flags |-> IF attrp.isnull THEN {} ELSE attrp.flags,
     obj |-> "own"]

\* lines 233-243: copy the caller's attributes, or make fresh ones
CloneAttr ==
    /\ pc = "clone"
    /\ \E ok \in BOOLEAN :
          /\ my_attr' = IF ok THEN cloned_attr(req.attrp) ELSE my_attr
          /\ live' = IF ok THEN live \cup { "my_attr" } ELSE live
          /\ events' = IF ok THEN events
                       ELSE events \cup { IF req.attrp.isnull THEN "attr_init_failed"
                                                              ELSE "malloc_attr_failed" }
          /\ pc' = IF ok THEN "scan" ELSE "crap"
    /\ UNCHANGED << is_launchd, hooked, fd255, req, pid_cell, old, flags, dylib_to_add,
                    my_envp, safe_mode, orig_dyld_insert, env_count, new, new_envp,
                    envp_to_use, need_unrestrict, was_suspended, ret, oldCalls,
                    helperRuns, inspected, pass, first_out, file, lr, given, sb, threads >>

\* lines 249-265: the scan of my_envp
ScanEnv ==
    /\ pc = "scan"
    /\ LET r == scan_env(my_envp, 1, FALSE, << >>)
       IN  /\ safe_mode' = r.safe_mode
           /\ orig_dyld_insert' = r.orig_dyld_insert
           /\ env_count' = r.env_count
           /\ pc' = IF r.skip THEN "skip" ELSE "build_new"
    /\ UNCHANGED << is_launchd, hooked, fd255, req, pid_cell, old, flags, dylib_to_add,
                    my_attr, my_envp, new, new_envp, envp_to_use, need_unrestrict,
                    was_suspended, ret, oldCalls, helperRuns, inspected, events, live,
                    pass, first_out, file, lr, given, sb, threads >>

(***************************************************************************)
(* Lines 266-303.  The result of malloc is not tested: when it is NULL the *)
(* stpcpy at line 269 stores through address 0, which is never mapped in a *)
(* Darwin process, so the only outcome is that the process is killed.      *)
(***************************************************************************)
BuildNew ==
    /\ pc = "build_new"
    /\ \E ok \in BOOLEAN :
          LET v == build_new(orig_dyld_insert, safe_mode, dylib_to_add)
          IN  /\ new' = IF ok /\ v # << >> THEN [isnull |-> FALSE, val |-> v] ELSE NullNew
              /\ live' = IF ok /\ v # << >> THEN live \cup { "new" } ELSE live
              /\ events' = IF ok THEN events ELSE events \cup { "malloc_new_failed" }
              /\ pc' = IF ok THEN "build_envp" ELSE "crashed"
    /\ UNCHANGED << is_launchd, hooked, fd255, req, pid_cell, old, flags, dylib_to_add,
                    my_attr, my_envp, safe_mode, orig_dyld_insert, env_count, new_envp,
                    envp_to_use, need_unrestrict, was_suspended, ret, oldCalls,
                    helperRuns, inspected, pass, first_out, file, lr, given, sb, threads >>

(***************************************************************************)
(* Lines 304-318.  The result of malloc is not tested here either: the     *)
(* store of the terminating NULL at line 315 is always executed, so a NULL *)
(* new_envp kills the process.  Otherwise safe mode leaves through skip.   *)
(***************************************************************************)
BuildEnvp ==
    /\ pc = "build_envp"
    /\ \E ok \in BOOLEAN :
          /\ new_envp' = IF ok THEN build_envp(my_envp, env_count,
                                               IF new.isnull THEN << >> ELSE new.val)
                         ELSE NullEnvp
          /\ envp_to_use' = "new_envp"
          /\ live' = IF ok THEN live \cup { "new_envp" } ELSE live
          /\ events' = IF ok THEN events ELSE events \cup { "malloc_envp_failed" }
          /\ pc' = IF ~ok THEN "crashed" ELSE IF safe_mode THEN "skip" ELSE "inspect"
    /\ UNCHANGED << is_launchd, hooked, fd255, req, pid_cell, old, flags, dylib_to_add,
                    my_attr, my_envp, safe_mode, orig_dyld_insert, env_count, new,
                    need_unrestrict, was_suspended, ret, oldCalls, helperRuns,
                    inspected, pass, first_out, file, lr, given, sb, threads >>

(***************************************************************************)
(* Line 323: need_unrestrict = looks_restricted(path).  The file at path   *)
(* and the answer of malloc are the system's; F is the set of files the    *)
(* path may hold.                                                          *)
(***************************************************************************)
Inspect(F) ==
    /\ pc = "inspect"
    /\ \E f \in F, got \in BOOLEAN :
          /\ file' = f
          /\ lr' = looks_restricted(f, got)
    /\ need_unrestrict' = lr'.ret
    /\ inspected' = inspected + 1
    /\ pc' = IF need_unrestrict' THEN "suspend" ELSE "call_old"
    /\ UNCHANGED << is_launchd, hooked, fd255, req, pid_cell, old, flags, dylib_to_add,
                    my_attr, my_envp, safe_mode, orig_dyld_insert, env_count, new,
                    new_envp, envp_to_use, was_suspended, ret, oldCalls, helperRuns,
                    events, live, pass, first_out, given, sb, threads >>

InspectTarget == Inspect(TargetFiles)

\* a mutant: the POSIX_SPAWN_SETEXEC branch of lines 332-342 is left out
ForceSuspend_straight_to_call ==
    /\ pc = "suspend"
    /\ was_suspended' = (POSIX_SPAWN_START_SUSPENDED \in flags)
    /\ flags' = flags \cup { POSIX_SPAWN_START_SUSPENDED }
    /\ \E ok \in BOOLEAN :
          /\ my_attr' = IF ok THEN [my_attr EXCEPT !.flags = flags'] ELSE my_attr
          /\ req' = IF ok /\ my_attr.obj = "caller"
                    THEN [req EXCEPT !.attrp.flags = flags']
                    ELSE req
          /\ events' = IF ok THEN events ELSE events \cup { "setflags_failed" }
          /\ pc' = IF ~ok THEN "crap" ELSE "call_old"
    /\ UNCHANGED << is_launchd, hooked, fd255, pid_cell, old, dylib_to_add,
                    my_envp, safe_mode, orig_dyld_insert, env_count, new, new_envp,
                    envp_to_use, need_unrestrict, ret, oldCalls, helperRuns, inspected,
                    live, pass, first_out, file, lr, given, sb, threads >>

\* lines 327-332: remember the caller's setting, force START_SUSPENDED on
ForceSuspend ==
    /\ pc = "suspend"
    /\ was_suspended' = (POSIX_SPAWN_START_SUSPENDED \in flags)
    /\ flags' = flags \cup { POSIX_SPAWN_START_SUSPENDED }
    /\ \E ok \in BOOLEAN :
          /\ my_attr' = IF ok THEN [my_attr EXCEPT !.flags = flags'] ELSE my_attr
          /\ req' = IF ok /\ my_attr.obj = "caller"
                    THEN [req EXCEPT !.attrp.flags = flags']
                    ELSE req
          /\ events' = IF ok THEN events ELSE events \cup { "setflags_failed" }
          /\ pc' = IF ~ok THEN "crap"
                   ELSE IF POSIX_SPAWN_SETEXEC \in flags THEN "dup2" ELSE "call_old"
    /\ UNCHANGED << is_launchd, hooked, fd255, pid_cell, old, dylib_to_add,
                    my_envp, safe_mode, orig_dyld_insert, env_count, new, new_envp,
                    envp_to_use, need_unrestrict, ret, oldCalls, helperRuns, inspected,
                    live, pass, first_out, file, lr, given, sb, threads >>

\* lines 333-337: dup2(2, 255); the new descriptor is not close-on-exec
Dup2Marker ==
    /\ pc = "dup2"
    /\ \E ok \in BOOLEAN :
          /\ fd255' = IF ok THEN "open" ELSE fd255
          /\ events' = IF ok THEN events ELSE events \cup { "dup2_failed" }
          /\ pc' = IF ok THEN "fcntl" ELSE "skip"
    /\ UNCHANGED << is_launchd, hooked, req, pid_cell, old, flags, dylib_to_add,
                    my_attr, my_envp, safe_mode, orig_dyld_insert, env_count, new,
                    new_envp, envp_to_use, need_unrestrict, was_suspended, ret,
                    oldCalls, helperRuns, inspected, live, pass, first_out, file, lr, given, sb, threads >>

\* lines 338-339: fcntl(255, F_SETFD, FD_CLOEXEC)
FcntlMarker ==
    /\ pc = "fcntl"
    /\ \E ok \in BOOLEAN :
          /\ fd255' = IF ok THEN "cloexec" ELSE fd255
          /\ events' = IF ok THEN events ELSE events \cup { "fcntl_failed" }
          /\ pc' = IF ok THEN "pre_unrestrict" ELSE "crap"
    /\ UNCHANGED << is_launchd, hooked, req, pid_cell, old, flags, dylib_to_add,
                    my_attr, my_envp, safe_mode, orig_dyld_insert, env_count, new,
                    new_envp, envp_to_use, need_unrestrict, was_suspended, ret,
                    oldCalls, helperRuns, inspected, live, pass, first_out, file, lr, given, sb, threads >>

\* lines 340-341: the helper for a replace-current-process spawn
PreExecUnrestrict ==
    /\ pc = "pre_unrestrict"
    /\ \E started \in BOOLEAN, reaped \in BOOLEAN :
          /\ helperRuns' = Append(helperRuns,
                 spawn_unrestrict(getpid, ~was_suspended, TRUE, started, reaped))
          /\ pc' = IF started THEN "call_old" ELSE "skip"
    /\ UNCHANGED << is_launchd, hooked, fd255, req, pid_cell, old, flags, dylib_to_add,
                    my_attr, my_envp, safe_mode, orig_dyld_insert, env_count, new,
                    new_envp, envp_to_use, need_unrestrict, was_suspended, ret,
                    oldCalls, inspected, events, live, pass, first_out, file, lr, given, sb, threads >>

(***************************************************************************)
(* What a call of the original primitive does to the caller: an error      *)
(* comes back as ret; a successful replace-current-process spawn does not  *)
(* come back at all; any other success creates a child and stores its pid  *)
(* through pidp when pidp is not NULL.                                     *)
(***************************************************************************)
spawn_replaces(result, attr) ==
    result = 0 /\ ~attr.isnull /\ POSIX_SPAWN_SETEXEC \in attr.flags

spawn_pid(result, attr, cpid) ==
    IF result = 0 /\ ~spawn_replaces(result, attr) THEN cpid ELSE 0

pid_stored(result, attr, cpid) ==
    IF spawn_pid(result, attr, cpid) # 0 /\ ~req.pidp.isnull THEN cpid ELSE pid_cell

\* lines 344-351: ret = old(pidp, path, file_actions, &my_attr, argv, envp_to_use)
CallOld ==
    /\ pc = "call_old"
    /\ \E result \in SpawnResults, cpid \in ChildPids :
          /\ oldCalls' = Append(oldCalls,
                                injected_call(result, spawn_pid(result, my_attr, cpid)))
          /\ pid_cell' = pid_stored(result, my_attr, cpid)
          /\ ret' = result
          /\ pc' = IF spawn_replaces(result, my_attr) THEN "execed"
                   ELSE IF result # 0 THEN "cleanup" ELSE "post"
    /\ UNCHANGED << is_launchd, hooked, fd255, req, old, flags, dylib_to_add, my_attr,
                    my_envp, safe_mode, orig_dyld_insert, env_count, new, new_envp,
                    envp_to_use, need_unrestrict, was_suspended, helperRuns, inspected,
                    events, live, pass, first_out, file, lr, given, sb, threads >>

(***************************************************************************)
(* Lines 352-357: the call came back with success, so it was not SETEXEC;  *)
(* pid = *pidp, and the helper is run for the child when the binary looked *)
(* restricted.  The result of spawn_unrestrict is not looked at.           *)
(***************************************************************************)
PostUnrestrict ==
    /\ pc = "post"
    /\ \E started \in BOOLEAN, reaped \in BOOLEAN :
          helperRuns' = IF need_unrestrict
                        THEN Append(helperRuns,
                                 spawn_unrestrict(pid_cell, ~was_suspended, FALSE,
                                                  started, reaped))
                        ELSE helperRuns
    /\ pc' = "cleanup"
    /\ UNCHANGED << is_launchd, hooked, fd255, req, pid_cell, old, flags, dylib_to_add,
                    my_attr, my_envp, safe_mode, orig_dyld_insert, env_count, new,
                    new_envp, envp_to_use, need_unrestrict, was_suspended, ret, oldCalls,
                    inspected, events, live, pass, first_out, file, lr, given, sb, threads >>

\* lines 358-359: crap: log, fall through to skip
Crap ==
    /\ pc = "crap"
    /\ pc' = "skip"
    /\ UNCHANGED << is_launchd, hooked, fd255, req, pid_cell, old, flags, dylib_to_add,
                    my_attr, my_envp, safe_mode, orig_dyld_insert, env_count, new,
                    new_envp, envp_to_use, need_unrestrict, was_suspended, ret,
                    oldCalls, helperRuns, inspected, events, live, pass, first_out, file, lr, given, sb, threads >>

\* lines 360-361: skip: ret = old(pidp, path, file_actions, attrp, argv, envp)
Skip ==
    /\ pc = "skip"
    /\ \E result \in SpawnResults, cpid \in ChildPids :
          /\ oldCalls' = Append(oldCalls,
                                skip_call(result, spawn_pid(result, req.attrp, cpid)))
          /\ pid_cell' = pid_stored(result, req.attrp, cpid)
          /\ ret' = result
          /\ pc' = IF spawn_replaces(result, req.attrp) THEN "execed" ELSE "cleanup"
    /\ UNCHANGED << is_launchd, hooked, fd255, req, old, flags, dylib_to_add, my_attr,
                    my_envp, safe_mode, orig_dyld_insert, env_count, new, new_envp,
                    envp_to_use, need_unrestrict, was_suspended, helperRuns, inspected,
                    events, live, pass, first_out, file, lr, given, sb, threads >>

\* lines 362-366: cleanup: free(new_envp); free(new); free(my_attr); return ret
Cleanup ==
    /\ pc = "cleanup"
    /\ live' = live \ { "new_envp", "new", "my_attr" }
    /\ pc' = "returned"
    /\ UNCHANGED << is_launchd, hooked, fd255, req, pid_cell, old, flags, dylib_to_add,
                    my_attr, my_envp, safe_mode, orig_dyld_insert, env_count, new,
                    new_envp, envp_to_use, need_unrestrict, was_suspended, ret,
                    oldCalls, helperRuns, inspected, events, pass, first_out, file, lr, given, sb, threads >>

\* the caller has taken the result; the thread is ready for its next spawn
Return ==
    /\ pc = "returned"
    /\ pc' = "idle"
    /\ req' = NoRequest
    /\ pid_cell' = 0
    /\ old' = ""
    /\ flags' = {}
    /\ dylib_to_add' = << >>
    /\ my_attr' = NullAttr
    /\ my_envp' = << >>
    /\ safe_mode' = FALSE
    /\ orig_dyld_insert' = << >>
    /\ env_count' = 0
    /\ new' = NullNew
    /\ new_envp' = NullEnvp
    /\ envp_to_use' = "envp"
    /\ need_unrestrict' = FALSE
    /\ was_suspended' = FALSE
    /\ ret' = 0
    /\ oldCalls' = << >>
    /\ helperRuns' = << >>
    /\ inspected' = 0
    /\ events' = {}
    /\ live' = {}
    /\ file' = NoFile
    /\ lr' = NotInspected
    /\ given' = NoRequest
    /\ UNCHANGED << is_launchd, hooked, fd255, pass, first_out, sb, threads >>

(***************************************************************************)
(* hook_sandbox_check, lines 385-403.  strcmp on a NULL op or a NULL name  *)
(* reads address 0 and the process is killed; on a slot the caller did not *)
(* pass, name is whatever va_arg found: the read may fault, or find some   *)
(* text, which may even be the broker's name.                              *)
(***************************************************************************)
sandbox_outcomes(op, blah) ==
    IF op.isnull THEN { "crashed" }
    ELSE IF op.s = "mach-lookup"
         THEN IF blah[1].kind = "string"
              THEN { IF blah[1].s = "com.ex.substituted" THEN "allowed"
                                                         ELSE "forwarded" }
              ELSE IF blah[1].kind = "null" THEN { "crashed" }
                   ELSE { "crashed", "allowed", "forwarded" }
         ELSE { "forwarded" }

\* line 401: old_sandbox_check(pid, op, type, blah[0], ..., blah[4])
forwarded_check(a, result) ==
    [ fn |-> "old_sandbox_check", pid |-> a.pid, op |-> a.op, type |-> a.type,
      args |-> a.blah, ret |-> result ]

hook_sandbox_check ==
    /\ pc = "idle"
    /\ hooked
    /\ \E a \in SandboxArgs, result \in SandboxResults :
          \E outcome \in sandbox_outcomes(a.op, a.blah) :
             /\ sb' = [ pid |-> a.pid, op |-> a.op, type |-> a.type, blah |-> a.blah,
                        calls |-> IF outcome = "forwarded"
                                  THEN << forwarded_check(a, result) >> ELSE << >>,
                        ret |-> IF outcome = "forwarded" THEN result ELSE 0 ]
             /\ pc' = IF outcome = "crashed" THEN "sandbox_crashed"
                                             ELSE "sandbox_returned"
    /\ UNCHANGED << is_launchd, hooked, fd255, req, pid_cell, old, flags, dylib_to_add,
                    my_attr, my_envp, safe_mode, orig_dyld_insert, env_count, new,
                    new_envp, envp_to_use, need_unrestrict, was_suspended, ret,
                    oldCalls, helperRuns, inspected, events, live, pass, first_out,
                    file, lr, given, threads >>

\* the caller has taken the answer of hook_sandbox_check
SandboxReturn ==
    /\ pc = "sandbox_returned"
    /\ sb' = NoSandbox
    /\ pc' = "idle"
    /\ UNCHANGED << is_launchd, hooked, fd255, req, pid_cell, old, flags, dylib_to_add,
                    my_attr, my_envp, safe_mode, orig_dyld_insert, env_count, new,
                    new_envp, envp_to_use, need_unrestrict, was_suspended, ret,
                    oldCalls, helperRuns, inspected, events, live, pass, first_out,
                    file, lr, given, threads >>

Next ==
    \/ init
    \/ hook_posix_spawn
    \/ hook_posix_spawnp
    \/ GetFlags
    \/ ChooseDylib
    \/ AccessDylib
    \/ CloneAttr
    \/ ScanEnv
    \/ BuildNew
    \/ BuildEnvp
    \/ InspectTarget
    \/ ForceSuspend
    \/ Dup2Marker
    \/ FcntlMarker
    \/ PreExecUnrestrict
    \/ CallOld
    \/ PostUnrestrict
    \/ Crap
    \/ Skip
    \/ Cleanup
    \/ Return
    \/ hook_sandbox_check
    \/ SandboxReturn

Spec == Init /\ [][Next]_vars

(***************************************************************************)
(* The environment rewrite on its own (lines 249-315), applied to an       *)
(* environment and then to its own result.  ScanEnv, BuildNew and          *)
(* BuildEnvp are the steps of the hook; Respawn hands the rewritten        *)
(* environment to a second run of them with the same library, as when the  *)
(* spawned program spawns again under the same hook.                       *)
(***************************************************************************)
Alphabet == { ":", "a", "B", "P" }

PlainEntries ==
    { Entry(MSSafeMode, S0),
      Entry(SubstituteSafeMode, SYES),
      Entry(SubstituteSafeMode, << >>),
      Entry(DIL, << "a", ":", "B" >>),
      Entry("PATH", << "/", "b", "i", "n" >>) }

ListEntries == { Entry(DIL, v) : v \in SeqsUpTo(Alphabet, MaxLen) }

\* up to MaxEnv entries, at most one of them with an arbitrary list value
RewriteEnvs ==
    LET around == { pp \in SeqsUpTo(PlainEntries, MaxEnv - 1)
                              \X SeqsUpTo(PlainEntries, MaxEnv - 1) :
                       Len(pp[1]) + Len(pp[2]) <= MaxEnv - 1 }
    IN  SeqsUpTo(PlainEntries, MaxEnv)
        \cup { pp[1] \o << e >> \o pp[2] : pp \in around, e \in ListEntries }

InitRewrite ==
    /\ pc = "scan"
    /\ dylib_to_add \in { bl_dylib, psh_dylib }
    /\ is_launchd = (dylib_to_add = psh_dylib)
    /\ hooked = TRUE
    /\ fd255 = "closed"
    /\ req = NoRequest
    /\ pid_cell = 0
    /\ old = "old_posix_spawn"
    /\ flags = {}
    /\ my_attr = cloned_attr(NoRequest.attrp)
    /\ my_envp \in RewriteEnvs
    /\ safe_mode = FALSE
    /\ orig_dyld_insert = << >>
    /\ env_count = 0
    /\ new = NullNew
    /\ new_envp = NullEnvp
    /\ envp_to_use = "envp"
    /\ need_unrestrict = FALSE
    /\ was_suspended = FALSE
    /\ ret = 0
    /\ oldCalls = << >>
    /\ helperRuns = << >>
    /\ inspected = 0
    /\ events = {}
    /\ live = { "my_attr" }
    /\ pass = 1
    /\ first_out = << >>
    /\ file = NoFile
    /\ lr = NotInspected
    /\ given = NoRequest
    /\ sb = NoSandbox
    /\ threads = NoThreads

Respawn ==
    /\ pc \in { "inspect", "skip" }
    /\ ~new_envp.isnull
    /\ pass = 1
    /\ pass' = 2
    /\ first_out' = new_envp.ents
    /\ my_envp' = new_envp.ents
    /\ safe_mode' = FALSE
    /\ orig_dyld_insert' = << >>
    /\ env_count' = 0
    /\ new' = NullNew
    /\ new_envp' = NullEnvp
    /\ envp_to_use' = "envp"
    /\ live' = { "my_attr" }
    /\ pc' = "scan"
    /\ UNCHANGED << is_launchd, hooked, fd255, req, pid_cell, old, flags, dylib_to_add,
                    my_attr, need_unrestrict, was_suspended, ret, oldCalls, helperRuns,
                    inspected, events, file, lr, given, sb, threads >>

NextRewrite ==
    \/ ScanEnv
    \/ BuildNew
    \/ BuildEnvp
    \/ Respawn

SpecRewrite == InitRewrite /\ [][NextRewrite]_vars

(***************************************************************************)
(* looks_restricted on its own (line 323), applied to every file of Files  *)
(* by a call that has just built its environment: a spawn of /bin/ls by a  *)
(* process that is not launchd, with an empty environment and no           *)
(* attributes.                                                             *)
(***************************************************************************)
InspectAny == Inspect(Files)

InspectRequest ==
    [ entry |-> "hook_posix_spawn", pidp |-> [isnull |-> FALSE], path |-> "/bin/ls",
      file_actions |-> "file_actions", attrp |-> [isnull |-> TRUE, flags |-> {}],
      argv0 |-> [isnull |-> TRUE, s |-> << >>],
      envp |-> [isnull |-> FALSE, ents |-> << >>] ]

InitInspect ==
    /\ pc = "inspect"
    /\ is_launchd = FALSE
    /\ hooked = TRUE
    /\ fd255 = "closed"
    /\ req = InspectRequest
    /\ given = InspectRequest
    /\ pid_cell = 0
    /\ old = "old_posix_spawn"
    /\ flags = {}
    /\ dylib_to_add = bl_dylib
    /\ my_attr = cloned_attr(InspectRequest.attrp)
    /\ my_envp = << >>
    /\ safe_mode = FALSE
    /\ orig_dyld_insert = << >>
    /\ env_count = 0
    /\ new = [isnull |-> FALSE, val |-> build_new(<< >>, FALSE, bl_dylib)]
    /\ new_envp = build_envp(<< >>, 0, build_new(<< >>, FALSE, bl_dylib))
    /\ envp_to_use = "new_envp"
    /\ need_unrestrict = FALSE
    /\ was_suspended = FALSE
    /\ ret = 0
    /\ oldCalls = << >>
    /\ helperRuns = << >>
    /\ inspected = 0
    /\ events = { "dylib_readable" }
    /\ live = { "my_attr", "new", "new_envp" }
    /\ pass = 1
    /\ first_out = << >>
    /\ file = NoFile
    /\ lr = NotInspected
    /\ sb = NoSandbox
    /\ threads = NoThreads

NextInspect == InspectAny

SpecInspect == InitInspect /\ [][NextInspect]_vars

(***************************************************************************)
(* Two threads of one process in hook_posix_spawn_generic at once.  The    *)
(* steps are the code's calls into the system; between two of them the     *)
(* other thread may run.  Everything a call does before line 326 is on its *)
(* own stack and heap blocks; the steps below are those that reach the     *)
(* process: descriptor slot 255, the processes spawned, the exec.          *)
(***************************************************************************)
ThreadFrame ==
    UNCHANGED << pc, is_launchd, hooked, req, pid_cell, old, flags, dylib_to_add,
                 my_attr, my_envp, safe_mode, orig_dyld_insert, env_count, new,
                 new_envp, envp_to_use, need_unrestrict, was_suspended, ret, oldCalls,
                 helperRuns, inspected, events, live, pass, first_out, file, lr,
                 given, sb >>

\* slot 255 holds a descriptor that the other thread's call put there
foreign_marker(t) == fd255 # "closed" /\ threads.marker_by \notin { "none", t }

\* a process created now gets a copy of every descriptor that is not close-on-exec
inherits_foreign(t) == fd255 = "open" /\ foreign_marker(t)

\* lines 156-323: flags from the attributes, the policy, the rewrite, the verdict
ThreadEnter(t) ==
    /\ threads.call[t].pc = "idle"
    /\ \E f \in FlagSets, inject \in BOOLEAN, verdict \in BOOLEAN :
          threads' = [threads EXCEPT !.call[t] =
                         [IdleThread EXCEPT
                             !.flags = f,
                             !.need_unrestrict = inject /\ verdict,
                             !.pc = IF ~inject THEN "skip"
                                    ELSE IF verdict THEN "suspend" ELSE "call_old"]]
    /\ UNCHANGED fd255
    /\ ThreadFrame

\* lines 327-332
ThreadForceSuspend(t) ==
    /\ threads.call[t].pc = "suspend"
    /\ \E ok \in BOOLEAN :
          threads' = [threads EXCEPT !.call[t] =
                         [@ EXCEPT
                             !.was_suspended =
                                 POSIX_SPAWN_START_SUSPENDED \in threads.call[t].flags,
                             !.flags = @ \cup { POSIX_SPAWN_START_SUSPENDED },
                             !.pc = IF ~ok THEN "crap"
                                    ELSE IF POSIX_SPAWN_SETEXEC \in threads.call[t].flags
                                         THEN "dup2" ELSE "call_old"]]
    /\ UNCHANGED fd255
    /\ ThreadFrame

\* lines 333-337: dup2(2, 255) closes whatever slot 255 held and puts a new
\* descriptor there, not close-on-exec
ThreadDup2Marker(t) ==
    /\ threads.call[t].pc = "dup2"
    /\ \E ok \in BOOLEAN :
          /\ fd255' = IF ok THEN "open" ELSE fd255
          /\ threads' = [threads EXCEPT
                            !.marker_by = IF ok THEN t ELSE @,
                            !.call[t] =
                                [@ EXCEPT
                                    !.overwrote = @ \/ (ok /\ foreign_marker(t)),
                                    !.pc = IF ok THEN "fcntl" ELSE "skip"]]
    /\ ThreadFrame

\* lines 338-339: fcntl(255, F_SETFD, FD_CLOEXEC) acts on whatever slot 255 holds now
ThreadFcntlMarker(t) ==
    /\ threads.call[t].pc = "fcntl"
    /\ \E ok \in BOOLEAN :
          /\ fd255' = IF ok THEN "cloexec" ELSE fd255
          /\ threads' = [threads EXCEPT
                            !.marker_by = IF ok THEN t ELSE @,
                            !.call[t] =
                                [@ EXCEPT
                                    !.overwrote = @ \/ (ok /\ foreign_marker(t)),
                                    !.pc = IF ok THEN "pre_unrestrict" ELSE "crap"]]
    /\ ThreadFrame

\* lines 340-341 and 52-75: the helper is spawned and waited for
ThreadPreExecUnrestrict(t) ==
    /\ threads.call[t].pc = "pre_unrestrict"
    /\ \E started \in BOOLEAN :
          threads' = [threads EXCEPT !.call[t] =
                         [@ EXCEPT
                             !.observed = @ \/ (started /\ inherits_foreign(t)),
                             !.pc = IF started THEN "call_old" ELSE "skip"]]
    /\ UNCHANGED fd255
    /\ ThreadFrame

\* what a call of the original primitive by thread t does to the threads: a
\* successful POSIX_SPAWN_SETEXEC replaces the process, so no thread goes on
after_old(t, result, replaces, next) ==
    [threads EXCEPT !.call =
        [ u \in Threads |->
            IF u = t
            THEN [threads.call[t] EXCEPT
                     !.ret = result,
                     !.observed = @ \/ (result = 0 /\ inherits_foreign(t)),
                     !.pc = IF replaces THEN "execed" ELSE next]
            ELSE IF replaces THEN [threads.call[u] EXCEPT !.pc = "execed"]
            ELSE threads.call[u] ]]

\* lines 344-351: the call with my_attr, whose flags are the call's flags
ThreadCallOld(t) ==
    /\ threads.call[t].pc = "call_old"
    /\ \E result \in SpawnResults :
          threads' = after_old(t, result,
                               result = 0 /\ POSIX_SPAWN_SETEXEC \in threads.call[t].flags,
                               IF result # 0 THEN "cleanup" ELSE "post")
    /\ UNCHANGED fd255
    /\ ThreadFrame

\* lines 352-357 and 52-75
ThreadPostUnrestrict(t) ==
    /\ threads.call[t].pc = "post"
    /\ \E started \in BOOLEAN :
          threads' = [threads EXCEPT !.call[t] =
                         [@ EXCEPT
                             !.observed = @ \/ ( /\ threads.call[t].need_unrestrict
                                                 /\ started
                                                 /\ inherits_foreign(t) ),
                             !.pc = "cleanup"]]
    /\ UNCHANGED fd255
    /\ ThreadFrame

\* lines 358-359
ThreadCrap(t) ==
    /\ threads.call[t].pc = "crap"
    /\ threads' = [threads EXCEPT !.call[t].pc = "skip"]
    /\ UNCHANGED fd255
    /\ ThreadFrame

\* lines 360-361: the call with the caller's attrp; the attributes the caller
\* gave have POSIX_SPAWN_SETEXEC exactly when the call's flags have it
ThreadSkip(t) ==
    /\ threads.call[t].pc = "skip"
    /\ \E result \in SpawnResults :
          threads' = after_old(t, result,
                               result = 0 /\ POSIX_SPAWN_SETEXEC \in threads.call[t].flags,
                               "cleanup")
    /\ UNCHANGED fd255
    /\ ThreadFrame

\* lines 362-366
ThreadCleanup(t) ==
    /\ threads.call[t].pc = "cleanup"
    /\ threads' = [threads EXCEPT !.call[t].pc = "returned"]
    /\ UNCHANGED fd255
    /\ ThreadFrame

\* the caller has taken the result; the thread is ready for its next spawn
ThreadReturn(t) ==
    /\ threads.call[t].pc = "returned"
    /\ threads' = [threads EXCEPT !.call[t] = IdleThread]
    /\ UNCHANGED fd255
    /\ ThreadFrame

\* the process after init installed the hooks, no call under way
InitThreads ==
    /\ pc = "idle"
    /\ is_launchd \in BOOLEAN
    /\ hooked = TRUE
    /\ fd255 = "closed"
    /\ req = NoRequest
    /\ pid_cell = 0
    /\ pass = 1
    /\ first_out = << >>
    /\ file = NoFile
    /\ lr = NotInspected
    /\ given = NoRequest
    /\ sb = NoSandbox
    /\ threads = NoThreads
    /\ Locals0

NextThreads ==
    \E t \in Threads :
        \/ ThreadEnter(t)
        \/ ThreadForceSuspend(t)
        \/ ThreadDup2Marker(t)
        \/ ThreadFcntlMarker(t)
        \/ ThreadPreExecUnrestrict(t)
        \/ ThreadCallOld(t)
        \/ ThreadPostUnrestrict(t)
        \/ ThreadCrap(t)
        \/ ThreadSkip(t)
        \/ ThreadCleanup(t)
        \/ ThreadReturn(t)

SpecThreads == InitThreads /\ [][NextThreads]_vars

(***************************************************************************)
(* Vocabulary of the properties.  These definitions read the request, the  *)
(* histories and the environments; they do not use the operators that      *)
(* model the rewrite.                                                      *)
(***************************************************************************)
\* the call is over: the hook returned, the process image was replaced, or
\* the process was killed
Returned == pc = "returned"
Over == pc \in { "returned", "execed", "crashed" }
InCall == pc \notin { "load", "idle", "sandbox_returned", "sandbox_crashed" }

SafeNames == { MSSafeMode, SubstituteSafeMode }
OffValues == { S0, SNO }
OnValues == { S1, SYES }

SafeEntries(env) == { i \in 1..Len(env) : env[i].name \in SafeNames }
HasInvalidSafeMode(env) ==
    \E i \in SafeEntries(env) : env[i].val \notin (OffValues \cup OnValues)
HasSafeModeOn(env) == \E i \in SafeEntries(env) : env[i].val \in OnValues
SafeModeOffOrUnset(env) == \A i \in SafeEntries(env) : env[i].val \in OffValues

DilEntries(env) == { i \in 1..Len(env) : env[i].name = DIL }
IsDil(e) == e.name = DIL
\* the values of the DYLD_INSERT_LIBRARIES entries, in order
DilValues(env) ==
    LET sel == SelectSeq(env, IsDil) IN [i \in 1..Len(sel) |-> sel[i].val]
\* the value of the last DYLD_INSERT_LIBRARIES entry, empty when there is none
LastDilValue(env) ==
    IF DilEntries(env) = {} THEN << >>
    ELSE env[CHOOSE i \in DilEntries(env) : \A j \in DilEntries(env) : j <= i].val

\* the elements of a colon-separated list
RECURSIVE Split(_)
Split(s) ==
    IF \A i \in 1..Len(s) : s[i] # ":" THEN << s >>
    ELSE LET c == CHOOSE i \in 1..Len(s) :
                     s[i] = ":" /\ \A j \in 1..(i - 1) : s[j] # ":"
         IN  << SubSeq(s, 1, c - 1) >> \o Split(SubSeq(s, c + 1, Len(s)))

Companions == { bl_dylib, psh_dylib }
IsPlain(e) == e # << >> /\ e \notin Companions
NotEmpty(e) == e # << >>
\* the library paths of a list that are not ours
PlainElements(s) == SelectSeq(Split(s), IsPlain)
Occurrences(seq, x) == Cardinality({ i \in 1..Len(seq) : seq[i] = x })

\* the call of the original primitive was given exactly what the caller gave
PassedUntouched(c) ==
    /\ c.pidp = req.pidp
    /\ c.path = req.path
    /\ c.file_actions = req.file_actions
    /\ c.argv0 = req.argv0
    /\ c.attrp = [ptr |-> "attrp", isnull |-> req.attrp.isnull,
                  flags |-> req.attrp.flags]
    /\ c.envp = [ptr |-> "envp", isnull |-> req.envp.isnull, ents |-> req.envp.ents]

OriginalOf(entry) ==
    IF entry = "hook_posix_spawn" THEN "old_posix_spawn" ELSE "old_posix_spawnp"

CallerAskedSuspended ==
    ~req.attrp.isnull /\ POSIX_SPAWN_START_SUSPENDED \in req.attrp.flags

(***************************************************************************)
(* C1.  Every call of hook_posix_spawn or hook_posix_spawnp, whatever path *)
(* it takes, ends with the corresponding original primitive invoked        *)
(* exactly once for the caller's target, and what the hook returns is what *)
(* that invocation returned.                                               *)
(***************************************************************************)
C1_OriginalInvokedOnce ==
    Over =>
        /\ Len(oldCalls) = 1
        /\ oldCalls[1].fn = OriginalOf(req.entry)
        /\ oldCalls[1].path = req.path
        /\ Returned => ret = oldCalls[1].ret

(***************************************************************************)
(* C2.  When the hook returns after the original primitive created a child *)
(* with start-suspended forced on although the caller had not asked for    *)
(* it, a helper that resumes that child's pid has been started.            *)
(***************************************************************************)
ForcedSuspendedChild(c) ==
    /\ c.ret = 0
    /\ c.pid # 0
    /\ POSIX_SPAWN_START_SUSPENDED \in c.attrp.flags
    /\ ~CallerAskedSuspended

ResumesChild(h, pid) ==
    /\ h.started
    /\ h.argv[2] = pid_string(pid)
    /\ h.argv[3] = "1"

C2_SuspendedChildGetsResumer ==
    Returned =>
        \A i \in 1..Len(oldCalls) :
            ForcedSuspendedChild(oldCalls[i]) =>
                \E j \in 1..Len(helperRuns) : ResumesChild(helperRuns[j], oldCalls[i].pid)

(***************************************************************************)
(* C3.  An allocation failure or an attribute failure anywhere on the      *)
(* injected path ends in the original primitive being called with the      *)
(* caller's untouched arguments; it neither prevents the spawn nor kills   *)
(* the caller.                                                             *)
(***************************************************************************)
AllocOrAttrFailures ==
    { "getflags_failed", "malloc_attr_failed", "attr_init_failed",
      "malloc_new_failed", "malloc_envp_failed", "setflags_failed" }

C3_FailureFallsBack ==
    (Over /\ events \cap AllocOrAttrFailures # {}) =>
        /\ pc # "crashed"
        /\ Len(oldCalls) = 1
        /\ PassedUntouched(oldCalls[1])

(***************************************************************************)
(* C4.  When injection is skipped (policy exclusion, library not readable, *)
(* invalid safe-mode value) the original primitive gets exactly the        *)
(* caller's arguments, a NULL envp or attrp staying NULL, and the hook's   *)
(* return value and the pid stored for the caller are those of that call.  *)
(***************************************************************************)
PolicyRan == InCall /\ pc \notin { "getflags", "policy" } /\ "getflags_failed" \notin events

InjectionSkipped ==
    \/ PolicyRan /\ dylib_to_add = << >>
    \/ "dylib_unreadable" \in events
    \/ InCall /\ HasInvalidSafeMode(my_envp)

C4_SkipPassesCallerArguments ==
    InjectionSkipped =>
        /\ pc # "crashed"
        /\ \A i \in 1..Len(oldCalls) : PassedUntouched(oldCalls[i])
        /\ Len(oldCalls) <= 1
        /\ Returned =>
              /\ Len(oldCalls) = 1
              /\ ret = oldCalls[1].ret
              /\ pid_cell = oldCalls[1].pid

C4_Witness ==
    /\ Returned
    /\ req.envp.isnull
    /\ req.attrp.isnull
    /\ "dylib_unreadable" \in events
    /\ Len(oldCalls) = 1
    /\ oldCalls[1].ret = 0
    /\ pid_cell # 0

(***************************************************************************)
(* C5.  Rewriting is idempotent: rewriting an environment with a library   *)
(* and then rewriting the result with the same library gives the same      *)
(* DYLD_INSERT_LIBRARIES value as rewriting once.                          *)
(***************************************************************************)
Rewritten == ~new_envp.isnull

C5_RewriteIdempotent ==
    (pass = 2 /\ Rewritten) => DilValues(new_envp.ents) = DilValues(first_out)

(***************************************************************************)
(* C6.  Whatever number of DYLD_INSERT_LIBRARIES entries the environment   *)
(* has, the rewritten array has none or one, none only when the rebuilt    *)
(* value is empty, and it is NULL-terminated within the env_count + 2      *)
(* slots allocated for it.                                                 *)
(***************************************************************************)
\* nothing is left to put in the list: safe mode keeps ours out and the
\* captured value names no other library
NothingToInsert(env) ==
    HasSafeModeOn(env) /\ PlainElements(LastDilValue(env)) = << >>

C6_AtMostOneEntry ==
    Rewritten =>
        /\ Cardinality(DilEntries(new_envp.ents)) \in { 0, 1 }
        /\ DilEntries(new_envp.ents) = {} => NothingToInsert(my_envp)
        /\ new_envp.slots = Len(my_envp) + 2
        /\ new_envp.used = Len(new_envp.ents) + 1
        /\ new_envp.used <= new_envp.slots

C6_Witness ==
    /\ Rewritten
    /\ Cardinality(DilEntries(my_envp)) >= 2
    /\ Cardinality(DilEntries(new_envp.ents)) = 1
    /\ new_envp.used = new_envp.slots - 2

(***************************************************************************)
(* C7.  With safe mode enabled by either variable ("1" or "YES"), no       *)
(* element of the rewritten DYLD_INSERT_LIBRARIES value is one of the two  *)
(* companion library paths.                                                *)
(***************************************************************************)
NamesCompanion(val) == \E k \in 1..Len(Split(val)) : Split(val)[k] \in Companions

C7_SafeModeKeepsCompanionsOut ==
    (Rewritten /\ HasSafeModeOn(my_envp)) =>
        \A i \in DilEntries(new_envp.ents) : ~NamesCompanion(new_envp.ents[i].val)

C7_Witness ==
    /\ Rewritten
    /\ HasSafeModeOn(my_envp)
    /\ \E i \in DilEntries(my_envp) :
          /\ psh_dylib \in { Split(my_envp[i].val)[k] : k \in 1..Len(Split(my_envp[i].val)) }
          /\ PlainElements(my_envp[i].val) # << >>
    /\ DilEntries(new_envp.ents) # {}

(***************************************************************************)
(* C8.  With the safe-mode variable unset or "0"/"NO" and the chosen       *)
(* library readable, the DYLD_INSERT_LIBRARIES value given to the original *)
(* primitive names the chosen library exactly once, as its last element,   *)
(* after the other libraries of the captured value in their order.         *)
(* C8_AsStated asks this of every call of the original primitive;          *)
(* C8_OnInjectedPath asks it when no attribute, descriptor or helper-start *)
(* failure has sent the call to the fallback.                              *)
(***************************************************************************)
ChosenLibraryLast(c) ==
    LET vals == DilValues(c.envp.ents)
    IN  /\ Len(vals) = 1
        /\ LET els == Split(vals[1])
               front == SubSeq(els, 1, Len(els) - 1)
           IN  /\ els[Len(els)] = dylib_to_add
               /\ Occurrences(els, dylib_to_add) = 1
               /\ \A k \in 1..Len(front) : front[k] \notin Companions
               /\ SelectSeq(front, NotEmpty) = PlainElements(LastDilValue(my_envp))

InjectionWanted ==
    /\ InCall
    /\ "dylib_readable" \in events
    /\ SafeModeOffOrUnset(my_envp)

FallbackFailures ==
    { "getflags_failed", "malloc_attr_failed", "attr_init_failed",
      "setflags_failed", "dup2_failed", "fcntl_failed" }

NoFallback ==
    /\ events \cap FallbackFailures = {}
    /\ \A j \in 1..Len(helperRuns) : helperRuns[j].started \/ helperRuns[j].argv[4] = "0"

C9_InvalidSafeModeSkips ==
    (InCall /\ HasInvalidSafeMode(my_envp)) =>
        /\ pc # "crashed"
        /\ inspected = 0
        /\ helperRuns = << >>
        /\ \A i \in 1..Len(oldCalls) :
              oldCalls[i].envp = [ptr |-> "envp", isnull |-> req.envp.isnull,
                                  ents |-> req.envp.ents]
        /\ Returned => Len(oldCalls) = 1

C9_Witness ==
    /\ Returned
    /\ Len(my_envp) = 2
    /\ my_envp[1] = Entry(MSSafeMode, S1)
    /\ my_envp[2].name = MSSafeMode
    /\ my_envp[2].val \notin (OffValues \cup OnValues)
    /\ "dylib_readable" \in events
    /\ env_count = 2
    /\ Len(oldCalls) = 1

(***************************************************************************)
(* C10.  A spawn of /usr/libexec/xpcproxy by a process that is not         *)
(* launchd.  C10_AsStated says injection is skipped for it;                *)
(* C10_XpcproxyNotExempt says what the policy does: bundle-loader.dylib is *)
(* selected unless the base name of argv[0] is sshd, and a call made with  *)
(* the rewritten environment names bundle-loader.dylib last.               *)
(***************************************************************************)
RECURSIVE AfterLastSlash(_)
AfterLastSlash(s) ==
    IF \A i \in 1..Len(s) : s[i] # "/" THEN s
    ELSE AfterLastSlash(Tail(s))

Argv0IsSshd == ~req.argv0.isnull /\ AfterLastSlash(req.argv0.s) = << "sshd" >>

XpcproxyFromOther == req.path = xpcproxy /\ ~is_launchd

GivenRewrittenEnv(c) == c.envp.ptr = "new_envp"

C10_AsStated ==
    (InCall /\ XpcproxyFromOther) =>
        \A i \in 1..Len(oldCalls) : PassedUntouched(oldCalls[i])

C10_XpcproxyNotExempt ==
    (PolicyRan /\ XpcproxyFromOther) =>
        /\ dylib_to_add = IF Argv0IsSshd THEN << >> ELSE bl_dylib
        /\ \A i \in 1..Len(oldCalls) :
              IF GivenRewrittenEnv(oldCalls[i])
              THEN /\ ~Argv0IsSshd
                   /\ Len(DilValues(oldCalls[i].envp.ents)) = 1
                   /\ LET els == Split(DilValues(oldCalls[i].envp.ents)[1])
                      IN  els[Len(els)] = bl_dylib
              ELSE PassedUntouched(oldCalls[i])

C10_Witness ==
    /\ Returned
    /\ XpcproxyFromOther
    /\ Len(oldCalls) = 1
    /\ GivenRewrittenEnv(oldCalls[1])
    /\ oldCalls[1].ret = 0
    /\ DilValues(oldCalls[1].envp.ents) = << bl_dylib >>

(***************************************************************************)
(* C11.  The injection decision is the rule table: launchd injects         *)
(* posixspawn-hook.dylib exactly into /usr/libexec/xpcproxy; any other     *)
(* process injects bundle-loader.dylib unless the path is substituted or   *)
(* notifyd or the base name of argv[0] (empty when NULL) is sshd; an       *)
(* unreadable library means skip; the decision is taken before the         *)
(* environment is scanned and before the target binary is opened.          *)
(***************************************************************************)
RuleTable ==
    IF is_launchd
    THEN IF req.path = "/usr/libexec/xpcproxy" THEN psh_dylib ELSE << >>
    ELSE IF \/ req.path = "/Library/Substitute/Helpers/substituted"
            \/ req.path = "/usr/sbin/notifyd"
            \/ Argv0IsSshd
         THEN << >>
         ELSE bl_dylib

AccessAnswers == { "dylib_readable", "dylib_unreadable" }

NothingInjected ==
    /\ inspected = 0
    /\ ~lr.ran
    /\ helperRuns = << >>
    /\ my_attr.isnull
    /\ new_envp.isnull
    /\ \A i \in 1..Len(oldCalls) : PassedUntouched(oldCalls[i])

WentOnToInject ==
    \/ pc = "clone"
    \/ ~my_attr.isnull
    \/ events \cap { "malloc_attr_failed", "attr_init_failed" } # {}

C11_DecisionIsRuleTable ==
    /\ PolicyRan => dylib_to_add = RuleTable
    /\ (PolicyRan /\ RuleTable = << >>) =>
          /\ events \cap AccessAnswers = {}
          /\ NothingInjected
    /\ (PolicyRan /\ RuleTable # << >>) =>
          (pc = "access" \/ events \cap AccessAnswers # {})
    /\ "dylib_unreadable" \in events => NothingInjected
    /\ "dylib_readable" \in events => WentOnToInject
    /\ pc \in { "getflags", "policy", "access", "clone" } =>
          (inspected = 0 /\ ~lr.ran /\ env_count = 0)

C11_Witness ==
    /\ Returned
    /\ is_launchd
    /\ req.path = xpcproxy
    /\ dylib_to_add = psh_dylib
    /\ "dylib_unreadable" \in events
    /\ HasSafeModeOn(my_envp)
    /\ Len(oldCalls) = 1

(***************************************************************************)
(* C12.  Nothing an interception call acquired outlives it: when the hook  *)
(* returns, descriptor 255 is closed again, the inspector's descriptor is  *)
(* closed, and the cloned attributes, the rebuilt string, the new          *)
(* environment array and the load-command buffer have been freed.          *)
(***************************************************************************)
C12_NothingOutlivesTheCall ==
    Returned =>
        /\ fd255 = "closed"
        /\ lr.fd \in { "not_opened", "closed" }
        /\ lr.cmds_buf \in { "not_allocated", "null", "freed" }
        /\ live = {}

(***************************************************************************)
(* C13.  hook_sandbox_check answers 0 without calling the original checker *)
(* exactly when op is "mach-lookup" and the name is "com.ex.substituted";  *)
(* in every other case it calls the original checker once, with the same   *)
(* pid, op, type and five trailing slots, and returns its answer.          *)
(***************************************************************************)
SandboxOver == pc \in { "sandbox_returned", "sandbox_crashed" }

BrokerLookup ==
    /\ ~sb.op.isnull
    /\ sb.op.s = "mach-lookup"
    /\ sb.blah[1] = [kind |-> "string", s |-> "com.ex.substituted"]

C13_SandboxOverride ==
    SandboxOver =>
        /\ pc = "sandbox_returned"
        /\ IF BrokerLookup
           THEN sb.ret = 0 /\ sb.calls = << >>
           ELSE /\ Len(sb.calls) = 1
                /\ sb.calls[1].pid = sb.pid
                /\ sb.calls[1].op = sb.op
                /\ sb.calls[1].type = sb.type
                /\ sb.calls[1].args = sb.blah
                /\ sb.ret = sb.calls[1].ret

(***************************************************************************)
(* C14.  looks_restricted answers true exactly when the file opens, its    *)
(* first seven words can be read, the header (that of the first            *)
(* architecture when the file is fat and has one) can be read and carries  *)
(* a Mach-O magic, the load commands can be read in full, and they contain *)
(* "__restrict"; in every other case it answers false, and either way it   *)
(* comes back with the descriptor closed.  Of a fat file only the first    *)
(* architecture counts.                                                    *)
(***************************************************************************)
HeaderWords(d) == IF d.bits = 64 THEN 8 ELSE 7

\* where the first architecture of the file starts
FirstImageAt(f) ==
    IF ~f.fat THEN 0
    ELSE IF 2 + 5 * Len(f.images) < 7 THEN 7 ELSE 2 + 5 * Len(f.images)

HasMarker(cmds) ==
    \E i \in 1..Len(cmds) :
        /\ i + 2 <= Len(cmds)
        /\ cmds[i] = << 95, 95, 114, 101 >>
        /\ cmds[i + 1] = << 115, 116, 114, 105 >>
        /\ cmds[i + 2][1] = 99 /\ cmds[i + 2][2] = 116 /\ cmds[i + 2][3] = 0

\* got: malloc gave the buffer the load commands are read into
Restricted(f, got) ==
    /\ f.opens
    /\ Len(f.words) >= 7
    /\ f.images # << >>
    /\ Len(f.words) >= FirstImageAt(f) + 7
    /\ f.images[1].good
    /\ Len(f.words) >= FirstImageAt(f) + HeaderWords(f.images[1]) + Len(f.images[1].cmds)
    /\ got
    /\ HasMarker(f.images[1].cmds)

C14_VerdictOfLooksRestricted ==
    lr.ran =>
        /\ lr.ret = Restricted(file, lr.malloc_ok)
        /\ need_unrestrict = lr.ret
        /\ lr.fd = IF file.opens THEN "closed" ELSE "not_opened"

C14_Witness ==
    /\ lr.ran
    /\ lr.ret
    /\ file.fat
    /\ Len(file.images) = 2
    /\ file.images[1].endian = "big"
    /\ HasMarker(file.images[1].cmds)
    /\ ~HasMarker(file.images[2].cmds)

(***************************************************************************)
(* C15.  With several safe-mode entries, all of them "0", "NO", "1" or     *)
(* "YES", the safe_mode the rewrite uses is what the last of them says.    *)
(***************************************************************************)
LastSafeEntry(env) ==
    env[CHOOSE i \in SafeEntries(env) : \A j \in SafeEntries(env) : j <= i]

C15_LastSafeModeEntryWins ==
    (pc = "build_new" /\ Cardinality(SafeEntries(my_envp)) >= 2
                      /\ ~HasInvalidSafeMode(my_envp)) =>
        safe_mode = (LastSafeEntry(my_envp).val \in OnValues)

(***************************************************************************)
(* C16.  With more than one DYLD_INSERT_LIBRARIES entry, the value the     *)
(* list is rebuilt from is that of the first entry.                        *)
(***************************************************************************)
FirstDilValue(env) ==
    env[CHOOSE i \in DilEntries(env) : \A j \in DilEntries(env) : i <= j].val

C16_FirstOccurrenceCaptured ==
    (pc = "build_new" /\ Cardinality(DilEntries(my_envp)) >= 2) =>
        orig_dyld_insert = FirstDilValue(my_envp)

(***************************************************************************)
(* C17.  With safe mode enabled on a spawn the policy did not skip, the    *)
(* original primitive is called with the rewritten environment: at most    *)
(* one DYLD_INSERT_LIBRARIES entry, naming neither companion library.      *)
(* Calls in which a failure sent the hook to its fallback are left aside.  *)
(***************************************************************************)
RewrittenWithoutCompanions(c) ==
    /\ GivenRewrittenEnv(c)
    /\ Cardinality(DilEntries(c.envp.ents)) <= 1
    /\ \A i \in DilEntries(c.envp.ents) : ~NamesCompanion(c.envp.ents[i].val)

C17_SafeModeCallsWithRewrittenEnv ==
    (InCall /\ "dylib_readable" \in events /\ HasSafeModeOn(my_envp)
            /\ ~HasInvalidSafeMode(my_envp) /\ NoFallback) =>
        \A i \in 1..Len(oldCalls) : RewrittenWithoutCompanions(oldCalls[i])

(***************************************************************************)
(* C18.  With a true verdict the helper and the original primitive are     *)
(* ordered by the spawn mode.  POSIX_SPAWN_SETEXEC: the helper runs, for   *)
(* the current pid and with descriptor 255 installed close-on-exec, and    *)
(* has come back before the original primitive is called.  Otherwise the   *)
(* original primitive is called first and the helper runs for the child's  *)
(* pid only after it returned 0.  The helper runs at most once per call.   *)
(***************************************************************************)
CallMade == Len(oldCalls') = Len(oldCalls) + 1
HelperRun == Len(helperRuns') = Len(helperRuns) + 1
NewCall == oldCalls'[Len(oldCalls')]
NewHelper == helperRuns'[Len(helperRuns')]
ReplaceSpawn == ~given.attrp.isnull /\ POSIX_SPAWN_SETEXEC \in given.attrp.flags

C18_Step ==
    /\ HelperRun =>
          /\ helperRuns = << >>
          /\ need_unrestrict
          /\ IF ReplaceSpawn
             THEN /\ oldCalls = << >>
                  /\ fd255 = "cloexec"
                  /\ NewHelper.argv[2] = pid_string(IF is_launchd THEN 1 ELSE 42)
                  /\ NewHelper.argv[4] = "1"
             ELSE /\ Len(oldCalls) = 1
                  /\ oldCalls[1].site = "injected"
                  /\ oldCalls[1].ret = 0
                  /\ oldCalls[1].pid # 0
                  /\ NewHelper.argv[2] = pid_string(oldCalls[1].pid)
                  /\ NewHelper.argv[4] = "0"
    /\ (CallMade /\ NewCall.site = "injected" /\ need_unrestrict) =>
          IF ReplaceSpawn
          THEN /\ Len(helperRuns) = 1
               /\ helperRuns[1].started
               /\ helperRuns[1].argv[4] = "1"
               /\ fd255 = "cloexec"
          ELSE helperRuns = << >>
    /\ (Returned /\ need_unrestrict /\ ~ReplaceSpawn /\ oldCalls # << >>
                 /\ oldCalls[1].site = "injected" /\ oldCalls[1].ret = 0) =>
          Len(helperRuns) = 1

C18_HelperOrderedBySpawnMode == [][C18_Step]_vars

C18_Witness ==
    /\ pc = "execed"
    /\ need_unrestrict
    /\ ReplaceSpawn
    /\ Len(helperRuns) = 1
    /\ helperRuns[1].started
    /\ Len(oldCalls) = 1
    /\ oldCalls[1].site = "injected"
    /\ fd255 = "cloexec"

(***************************************************************************)
(* C19.  With a true verdict the original primitive is called with         *)
(* POSIX_SPAWN_START_SUSPENDED set whatever the caller had set; the helper *)
(* gets the target pid, "1" as resume flag exactly when the caller had not *)
(* set start-suspended, and "1" as exec flag exactly for a                 *)
(* POSIX_SPAWN_SETEXEC spawn; so a child whose caller asked for suspension *)
(* stays suspended and any other child is resumed.                         *)
(***************************************************************************)
GivenSuspended ==
    ~given.attrp.isnull /\ POSIX_SPAWN_START_SUSPENDED \in given.attrp.flags

HelperArguments(h) ==
    /\ (h.argv[3] = "1") = ~GivenSuspended
    /\ h.argv[3] \in { "0", "1" }
    /\ (h.argv[4] = "1") = ReplaceSpawn
    /\ h.argv[4] \in { "0", "1" }
    /\ h.argv[2] = IF ReplaceSpawn THEN pid_string(IF is_launchd THEN 1 ELSE 42)
                   ELSE pid_string(oldCalls[1].pid)

SuspendedChild(c) == c.site = "injected" /\ c.ret = 0 /\ c.pid # 0

C19_FlagsAndHelperArguments ==
    (InCall /\ need_unrestrict) =>
        /\ \A i \in 1..Len(oldCalls) :
              oldCalls[i].site = "injected" =>
                  POSIX_SPAWN_START_SUSPENDED \in oldCalls[i].attrp.flags
        /\ \A j \in 1..Len(helperRuns) : HelperArguments(helperRuns[j])

C19_SuspendedOrResumed ==
    /\ C19_FlagsAndHelperArguments
    /\ (Returned /\ need_unrestrict) =>
          \A i \in 1..Len(oldCalls) :
              SuspendedChild(oldCalls[i]) =>
                  IF GivenSuspended
                  THEN \A j \in 1..Len(helperRuns) : helperRuns[j].argv[3] = "0"
                  ELSE \E j \in 1..Len(helperRuns) :
                          ResumesChild(helperRuns[j], oldCalls[i].pid)

(***************************************************************************)
(* C20.  The hook never changes the caller's request: at every point of a  *)
(* call the caller's attributes and their flags, environment, argv and     *)
(* file actions are what they were when the hook was entered; the forced   *)
(* suspension and the rewritten DYLD_INSERT_LIBRARIES entry are in the     *)
(* hook's own objects.                                                     *)
(***************************************************************************)
C20_CallerRequestUntouched ==
    InCall =>
        /\ req = given
        /\ \A i \in 1..Len(oldCalls) :
              oldCalls[i].site = "injected" =>
                  /\ oldCalls[i].attrp.ptr = "my_attr"
                  /\ oldCalls[i].envp.ptr = "new_envp"

C20_Witness ==
    /\ Returned
    /\ need_unrestrict
    /\ ~given.attrp.isnull
    /\ POSIX_SPAWN_START_SUSPENDED \notin given.attrp.flags
    /\ POSIX_SPAWN_START_SUSPENDED \in my_attr.flags
    /\ DilEntries(given.envp.ents) # {}
    /\ Len(oldCalls) = 1
    /\ oldCalls[1].site = "injected"
    /\ oldCalls[1].envp.ents # given.envp.ents

(***************************************************************************)
(* C21.  Calls of the hook running in two threads share no state they      *)
(* write: no call's dup2 or fcntl acts on a descriptor in slot 255 that    *)
(* the other call put there, and no process a call spawns or image it      *)
(* execs inherits such a descriptor; is_launchd and the captured originals *)
(* are only read.                                                          *)
(***************************************************************************)
C21_CallsShareNoMutableState ==
    \A t \in Threads :
        /\ ~threads.call[t].overwrote
        /\ ~threads.call[t].observed

====
